---- MODULE Spec2Model ----
(***************************************************************************)
(* The MP3 player screen of src/Gym_app_mobile/app.js (the same logic is   *)
(* repeated in src/unnamed/part_000): a React function component whose     *)
(* state is the playlist, the current expo-av Sound, the playing flag, the *)
(* playback status, the alert modal and the loading flag, together with    *)
(* the platform it drives: AsyncStorage, the audio directory and the Sound *)
(* objects.                                                                *)
(*                                                                         *)
(* An async handler is a record in one of the in-flight sets; it holds the *)
(* values its closure captured when it was invoked (React handlers read    *)
(* the state of the render they were created in) and the await it is       *)
(* suspended at.  One action is one run of JavaScript: the completion of   *)
(* the awaited platform call followed by the handler's code up to its next *)
(* await, with the re-render and the effects the state updates trigger.    *)
(* AsyncStorage serves its requests one at a time in the order issued.     *)
(*                                                                         *)
(* The pomodoro screen of src/react_pomodoro/app/index.jsx is modelled in  *)
(* the same way, on variables of its own, further down.                    *)
(***************************************************************************)
EXTENDS Integers, Sequences, FiniteSets, TLC

VARIABLES
    playlist,        \* useState([])    : sequence of [name, uri]
    currentSound,    \* useState(null)  : a sound id, NoSound for null
    isPlaying,       \* useState(false)
    playbackStatus,  \* useState(null)
    errorMessage,    \* useState('')    : title of the alert, "" when none
    showErrorModal,  \* useState(false)
    loading,         \* useState(false)
    storage,         \* AsyncStorage value under PLAYLIST_STORAGE_KEY
    storeQ,          \* AsyncStorage requests issued and not yet served
    files,           \* uris of the files present in AUDIO_DIR
    sounds,          \* the Audio.Sound objects, by id
    plays,           \* playAudio invocations in flight
    stops,           \* stopAudio invocations in flight
    pauses,          \* pauseAudio invocations in flight
    removes,         \* removeAudio invocations in flight
    adds,            \* pickAudioFile invocations in flight
    load,            \* the loadPlaylist invocation of the mount effect: where it
                     \* is, parsedPlaylist, validPlaylist, the loop index, and
                     \* (for the claims) the uris getInfoAsync found to exist
    mounted,         \* the component has been mounted (effects have run)
    cmds,            \* number of user commands issued so far
    superseded,      \* sounds whose play was still in flight when a later play was issued
    \* the pomodoro screen, src/react_pomodoro/app/index.jsx
    sound,           \* useRef(null)   : the background Sound, st "null" while the ref is null
    alarmSound,      \* useRef(null)   : the alarm Sound, st "null" while the ref is null
    isLofiPlaying,   \* useState(true) : isPlaying of index.jsx (isLofiPlaying in part_000)
    timerType,       \* useState(pomodoro[0]) : the id of the entry
    timeLeft,        \* useState(timerType.initialValue)
    isRunning,       \* useState(false)
    loadSounds,      \* the await loadSounds() is suspended at
    toggles,         \* toggleSound and toggleTimer invocations in flight
    screen           \* "new" before the effects of the first commit, then "mounted", "unmounted"

pomodoroVars == <<sound, alarmSound, isLofiPlaying, timerType, timeLeft, isRunning,
                  loadSounds, toggles, screen>>

vars == <<playlist, currentSound, isPlaying, playbackStatus, errorMessage,
          showErrorModal, loading, storage, storeQ, files, sounds, plays,
          stops, pauses, removes, adds, load, mounted, cmds, superseded,
          pomodoroVars>>

playerVars == <<playlist, currentSound, isPlaying, playbackStatus, errorMessage,
                showErrorModal, loading, storage, storeQ, files, sounds, plays,
                stops, pauses, removes, adds, load, mounted, cmds, superseded>>

reactVars == <<playlist, currentSound, isPlaying, playbackStatus, errorMessage,
               showErrorModal, loading>>

-----------------------------------------------------------------------------
(* Bounds *)

NumNames == 2
MaxSounds == 3
Dur == 2
MaxCmds == 3
\* the initialValue of the three timer types, in ticks of the interval
FocusTime == 3
ShortTime == 1
LongTime == 2
\* toggleSound and toggleTimer invocations in flight at once
MaxToggles == 2
\* the count of replayAsync calls on the alarm stops here
MaxReplays == 3

Names == 1..NumNames
SoundIds == 1..MaxSounds
NoSound == 0

-----------------------------------------------------------------------------
(* Values *)

AUDIO_DIR == "audio/"

\* const destinationUri = AUDIO_DIR + fileName
DestinationUri(fileName) == <<AUDIO_DIR, fileName>>

Track(fileName) == [name |-> fileName, uri |-> DestinationUri(fileName)]

\* JSON.stringify(playlist): the list of the tracks' {name, uri} pairs
Stringify(pl) ==
    IF Len(pl) = 0 THEN <<>>
    ELSE [i \in 1..Len(pl) |-> <<pl[i].name, pl[i].uri>>]

\* JSON.parse(storedPlaylist)
Parse(s) ==
    IF Len(s) = 0 THEN <<>>
    ELSE [i \in 1..Len(s) |-> [name |-> s[i][1], uri |-> s[i][2]]]

NoValue == [present |-> FALSE, val |-> <<>>]
Stored(s) == [present |-> TRUE, val |-> s]

NoStatus == [set |-> FALSE, pos |-> 0, didJustFinish |-> FALSE]
Status(p, f) == [set |-> TRUE, pos |-> p, didJustFinish |-> f]

FreeSound == [uri |-> <<>>, st |-> "free", playing |-> FALSE, pos |-> 0, cb |-> NoSound]

Uris(pl) == {pl[i].uri : i \in 1..Len(pl)}

UniqueUris(pl) == \A i, j \in 1..Len(pl) : pl[i].uri = pl[j].uri => i = j

\* the playlists an earlier run of the application can have left in
\* storage: tracks of the audio directory, no uri twice; the file names are
\* interchangeable, so the playlists of the first k names stand for all
StoredPlaylists == {[i \in 1..k |-> Track(i)] : k \in 0..NumNames}

Loaded == {h \in SoundIds : sounds[h].st = "loaded"}

\* tells apart the invocations of one handler that are in flight together
FreshId(ops) == CHOOSE n \in 0..MaxCmds : n \notin {o.id : o \in ops} /\ \A m \in 0..(n - 1) : m \in {o.id : o \in ops}

-----------------------------------------------------------------------------
(* The pomodoro screen: values *)

\* the ids of the entries of the array pomodoro
TimerTypes == {"focus", "short", "long"}

InitialValue(id) ==
    CASE id = "focus" -> FocusTime
      [] id = "short" -> ShortTime
      [] id = "long" -> LongTime

\* what a ref holds: st is "null" for a null ref, then "loaded", "unloaded";
\* replays counts the replayAsync calls made on the sound
NullSound == [st |-> "null", playing |-> FALSE, replays |-> 0]

\* the state after the first render of Index, before its effects
PomodoroInit ==
    /\ sound = NullSound
    /\ alarmSound = NullSound
    /\ isLofiPlaying = TRUE
    /\ timerType = "focus"
    /\ timeLeft = InitialValue("focus")
    /\ isRunning = FALSE
    /\ loadSounds = "idle"
    /\ toggles = {}
    /\ screen = "new"

-----------------------------------------------------------------------------
(* React *)

\* an effect that never writes
SaveNothing(pl, ld, q) == q

\* the effect of useEffect(..., [playlist, loading]), run after a render in
\* which playlist or loading changed: it issues the write unless loading
SavePlaylistEffect(pl, ld, q) ==
    IF ~ld THEN Append(q, [op |-> "set", val |-> Stringify(pl)]) ELSE q

\* what the user can touch: nothing before mount, nothing under the alert
\* modal, nothing while the system document picker is open
UIEnabled ==
    /\ mounted
    /\ ~showErrorModal
    /\ \A a \in adds : a.pc # "pick"
    /\ cmds < MaxCmds

Init ==
    /\ playlist = <<>>
    /\ currentSound = NoSound
    /\ isPlaying = FALSE
    /\ playbackStatus = NoStatus
    /\ errorMessage = ""
    /\ showErrorModal = FALSE
    /\ loading = FALSE
    /\ storage \in {NoValue} \cup {Stored(Stringify(pl)) : pl \in StoredPlaylists}
    /\ files \in SUBSET {DestinationUri(n) : n \in Names}
    /\ storeQ = <<>>
    /\ sounds = [h \in SoundIds |-> FreeSound]
    /\ plays = {}
    /\ stops = {}
    /\ pauses = {}
    /\ removes = {}
    /\ adds = {}
    /\ load = [pc |-> "idle", parsed |-> <<>>, valid |-> <<>>, idx |-> 0, found |-> {}]
    /\ mounted = FALSE
    /\ cmds = 0
    /\ superseded = {}
    /\ PomodoroInit

-----------------------------------------------------------------------------
(* Mount, loadPlaylist, AsyncStorage *)

\* The first commit: the effects run in order with the first render's
\* values (playlist = [], loading = false).  loadPlaylist sets loading and
\* issues getItem; the save effect then sees loading = false and issues
\* setItem of the empty playlist.  The re-render for loading = true runs the
\* save effect again, which now does nothing.
Mount ==
    /\ ~mounted
    /\ mounted' = TRUE
    /\ loading' = TRUE
    /\ load' = [load EXCEPT !.pc = "get"]
    /\ storeQ' = SavePlaylistEffect(playlist, loading,
                                    Append(storeQ, [op |-> "get", val |-> <<>>]))
    /\ UNCHANGED <<playlist, currentSound, isPlaying, playbackStatus, errorMessage,
                   showErrorModal, storage, files, sounds, plays, stops, pauses,
                   removes, adds, cmds, superseded>>
    /\ UNCHANGED pomodoroVars

\* a load that ends without clearing loading
LoadFinishLoading(pl, q, found) ==
    /\ playlist' = pl
    /\ loading' = TRUE
    /\ load' = [load EXCEPT !.pc = "done", !.valid = <<>>, !.idx = 0, !.found = found]
    /\ storeQ' = q

\* finally { setLoading(false) } together with what the try or catch block
\* set before it: one render, after which the save effect runs
LoadFinish(pl, q, found) ==
    /\ playlist' = pl
    /\ loading' = FALSE
    /\ load' = [load EXCEPT !.pc = "done", !.valid = <<>>, !.idx = 0, !.found = found]
    /\ storeQ' = SavePlaylistEffect(pl, FALSE, q)

\* getItem resolves or rejects; loadPlaylist runs to its next await
GetItemDone(ok) ==
    /\ storeQ # <<>>
    /\ Head(storeQ).op = "get"
    /\ load.pc = "get"
    /\ IF ok /\ storage.present
       THEN LET parsed == Parse(storage.val) IN
            IF Len(parsed) = 0
            THEN /\ LoadFinish(<<>>, Tail(storeQ), {})
                 /\ UNCHANGED <<errorMessage, showErrorModal>>
            ELSE /\ load' = [pc |-> "probe", parsed |-> parsed, valid |-> <<>>, idx |-> 1,
                          found |-> {}]
                 /\ storeQ' = Tail(storeQ)
                 /\ UNCHANGED <<playlist, loading, errorMessage, showErrorModal>>
       ELSE IF ok
       THEN /\ LoadFinish(playlist, Tail(storeQ), {})
            /\ UNCHANGED <<errorMessage, showErrorModal>>
       ELSE /\ errorMessage' = "Erro de Carregamento"
            /\ showErrorModal' = TRUE
            /\ LoadFinish(playlist, Tail(storeQ), {})
    /\ UNCHANGED <<currentSound, isPlaying, playbackStatus, storage, files, sounds,
                   plays, stops, pauses, removes, adds, mounted, cmds, superseded>>
    /\ UNCHANGED pomodoroVars

\* a loop that keeps every stored track
PushAlways(validPlaylist, item, exists) == Append(validPlaylist, item)

\* if (fileInfo.exists) validPlaylist.push(item)
PushValid(validPlaylist, item, exists) ==
    IF exists THEN Append(validPlaylist, item) ELSE validPlaylist

\* FileSystem.getInfoAsync(item.uri) resolves for the item under the loop
GetInfoDone ==
    /\ load.pc = "probe"
    /\ LET item == load.parsed[load.idx]
           exists == item.uri \in files
           valid == PushValid(load.valid, item, exists)
           found == IF exists THEN load.found \cup {item.uri} ELSE load.found
       IN IF load.idx = Len(load.parsed)
          THEN /\ LoadFinish(valid, storeQ, found)
          ELSE /\ load' = [load EXCEPT !.valid = valid, !.idx = load.idx + 1,
                                       !.found = found]
               /\ UNCHANGED <<playlist, loading, storeQ>>
    /\ UNCHANGED <<currentSound, isPlaying, playbackStatus, errorMessage, showErrorModal,
                   storage, files, sounds, plays, stops, pauses, removes, adds,
                   mounted, cmds, superseded>>
    /\ UNCHANGED pomodoroVars

\* FileSystem.getInfoAsync(item.uri) rejects: the catch block shows the alert,
\* setPlaylist is not reached
GetInfoFailed ==
    /\ load.pc = "probe"
    /\ errorMessage' = "Erro de Carregamento"
    /\ showErrorModal' = TRUE
    /\ LoadFinish(playlist, storeQ, load.found)
    /\ UNCHANGED <<currentSound, isPlaying, playbackStatus, storage, files, sounds,
                   plays, stops, pauses, removes, adds, mounted, cmds, superseded>>
    /\ UNCHANGED pomodoroVars

\* a storage that serves the request issued last before the older ones
SetItemNewestFirst(ok) ==
    /\ storeQ # <<>>
    /\ storeQ[Len(storeQ)].op = "set"
    /\ storeQ' = SubSeq(storeQ, 1, Len(storeQ) - 1)
    /\ IF ok
       THEN /\ storage' = Stored(storeQ[Len(storeQ)].val)
            /\ UNCHANGED <<errorMessage, showErrorModal>>
       ELSE /\ errorMessage' = "Erro ao Salvar"
            /\ showErrorModal' = TRUE
            /\ UNCHANGED storage
    /\ UNCHANGED <<playlist, currentSound, isPlaying, playbackStatus, loading, files,
                   sounds, plays, stops, pauses, removes, adds, load, mounted, cmds,
                   superseded>>
    /\ UNCHANGED pomodoroVars

\* a setItem whose failure takes the playlist back to the stored one
SetItemRollback(ok) ==
    /\ storeQ # <<>>
    /\ Head(storeQ).op = "set"
    /\ storeQ' = Tail(storeQ)
    /\ IF ok
       THEN /\ storage' = Stored(Head(storeQ).val)
            /\ UNCHANGED <<playlist, errorMessage, showErrorModal>>
       ELSE /\ errorMessage' = "Erro ao Salvar"
            /\ showErrorModal' = TRUE
            /\ playlist' = IF storage.present THEN Parse(storage.val) ELSE <<>>
            /\ UNCHANGED storage
    /\ UNCHANGED <<currentSound, isPlaying, playbackStatus, loading, files,
                   sounds, plays, stops, pauses, removes, adds, load, mounted, cmds,
                   superseded>>
    /\ UNCHANGED pomodoroVars

\* setItem resolves or rejects
SetItemDone(ok) ==
    /\ storeQ # <<>>
    /\ Head(storeQ).op = "set"
    /\ storeQ' = Tail(storeQ)
    /\ IF ok
       THEN /\ storage' = Stored(Head(storeQ).val)
            /\ UNCHANGED <<errorMessage, showErrorModal>>
       ELSE /\ errorMessage' = "Erro ao Salvar"
            /\ showErrorModal' = TRUE
            /\ UNCHANGED storage
    /\ UNCHANGED <<playlist, currentSound, isPlaying, playbackStatus, loading, files,
                   sounds, plays, stops, pauses, removes, adds, load, mounted, cmds,
                   superseded>>
    /\ UNCHANGED pomodoroVars

\* closeErrorModal
CloseErrorModal ==
    /\ showErrorModal
    /\ showErrorModal' = FALSE
    /\ errorMessage' = ""
    /\ UNCHANGED <<playlist, currentSound, isPlaying, playbackStatus, loading, storage,
                   storeQ, files, sounds, plays, stops, pauses, removes, adds, load,
                   mounted, cmds, superseded>>
    /\ UNCHANGED pomodoroVars

-----------------------------------------------------------------------------
(* playAudio, onPlaybackStatusUpdate, pauseAudio, stopAudio *)

NewSound == CHOOSE h \in SoundIds : sounds[h].st = "free" /\ \A g \in SoundIds : sounds[g].st = "free" => h <= g

\* an unloadAsync that releases nothing
UnloadNothing(snd, h) == snd

\* sound.unloadAsync(): releases the sound; a sound not loaded stays as it is
Unload(snd, h) ==
    IF h # NoSound /\ snd[h].st = "loaded"
    THEN [snd EXCEPT ![h] = [FreeSound EXCEPT !.uri = snd[h].uri, !.st = "unloaded"]]
    ELSE snd

\* A Sound object that is not loaded and that neither the state nor a
\* closure in flight refers to is garbage: its id is free again.
Collect(snd, cs, ps, ss, pz, rs) ==
    LET refs == {cs} \cup {o.h : o \in ps} \cup {o.cs : o \in ps \cup ss \cup pz \cup rs}
                     \cup {snd[h].cb : h \in {g \in SoundIds : snd[g].st = "loaded"}}
    IN [h \in SoundIds |->
          IF snd[h].st \in {"unloaded", "failed"} /\ h \notin refs THEN FreeSound ELSE snd[h]]

\* the Sound objects after a step that left them as snd; to be stated after
\* the step's other updates
SoundsBecome(snd) ==
    /\ sounds' = Collect(snd, currentSound', plays', stops', pauses', removes')
    /\ superseded' = {h \in superseded : sounds'[h].st # "free"}

\* onPress of the play button of playlist item i: playAudio(item.uri) up to
\* its first await.  The closure holds this render's currentSound and this
\* render's onPlaybackStatusUpdate.
PlayAudio(i) ==
    /\ UIEnabled
    /\ i \in 1..Len(playlist)
    /\ ~(isPlaying /\ currentSound # NoSound /\ sounds[currentSound].uri = playlist[i].uri)
    /\ \E h \in SoundIds : sounds[h].st = "free"
    /\ LET h == NewSound IN
       /\ sounds' = [sounds EXCEPT ![h] = [FreeSound EXCEPT !.uri = playlist[i].uri,
                                                             !.st = "pending"]]
       /\ plays' = plays \cup {[h |-> h, uri |-> playlist[i].uri, cs |-> currentSound,
                                pc |-> IF currentSound # NoSound THEN "unload" ELSE "create"]}
       /\ superseded' = superseded \cup {p.h : p \in plays}
    /\ cmds' = cmds + 1
    /\ UNCHANGED <<playlist, currentSound, isPlaying, playbackStatus, errorMessage,
                   showErrorModal, loading, storage, storeQ, files, stops, pauses,
                   removes, adds, load, mounted>>
    /\ UNCHANGED pomodoroVars

\* await currentSound.unloadAsync() resolves; setCurrentSound(null); createAsync is issued
PlayUnloaded(p) ==
    /\ p \in plays
    /\ p.pc = "unload"
    /\ currentSound' = NoSound
    /\ plays' = (plays \ {p}) \cup {[p EXCEPT !.pc = "create"]}
    /\ UNCHANGED <<playlist, isPlaying, playbackStatus, errorMessage, showErrorModal,
                   loading, storage, storeQ, files, stops, pauses, removes, adds, load,
                   mounted, cmds>>
    /\ SoundsBecome(Unload(sounds, p.cs))
    /\ UNCHANGED pomodoroVars

\* await currentSound.unloadAsync() rejects: the await is outside the try, so
\* playAudio ends there with a rejected promise; no state is set, no alert
PlayUnloadFailed(p) ==
    /\ p \in plays
    /\ p.pc = "unload"
    /\ plays' = plays \ {p}
    /\ UNCHANGED <<playlist, currentSound, isPlaying, playbackStatus, errorMessage,
                   showErrorModal, loading, storage, storeQ, files, stops, pauses,
                   removes, adds, load, mounted, cmds>>
    /\ SoundsBecome(sounds)
    /\ UNCHANGED pomodoroVars

\* await Audio.Sound.createAsync(...) resolves (the sound is loaded and
\* playing, with the closure's onPlaybackStatusUpdate attached) or rejects
PlayCreated(p, ok) ==
    /\ p \in plays
    /\ p.pc = "create"
    /\ plays' = plays \ {p}
    /\ IF ok
       THEN /\ currentSound' = p.h
            /\ isPlaying' = TRUE
            /\ UNCHANGED <<errorMessage, showErrorModal>>
       ELSE /\ errorMessage' = "Erro de Reproducao"
            /\ showErrorModal' = TRUE
            /\ isPlaying' = FALSE
            /\ UNCHANGED currentSound
    /\ UNCHANGED <<playlist, playbackStatus, loading, storage, storeQ, files, stops,
                   pauses, removes, adds, load, mounted, cmds>>
    /\ SoundsBecome(IF ok
                    THEN [sounds EXCEPT ![p.h].st = "loaded", ![p.h].playing = TRUE,
                                        ![p.h].pos = 0, ![p.h].cb = p.cs]
                    ELSE [sounds EXCEPT ![p.h].st = "failed"])
    /\ UNCHANGED pomodoroVars

\* The loaded sound h reports its status to the onPlaybackStatusUpdate it
\* was created with, whose closure holds sounds[h].cb as currentSound.
\* With adv the playing sound has moved on by one position; reaching Dur is
\* the end of the track (didJustFinish, the sound stops playing).
OnPlaybackStatusUpdate(h, adv) ==
    /\ sounds[h].st = "loaded"
    /\ adv => sounds[h].playing /\ sounds[h].pos < Dur
    /\ LET pos == IF adv THEN sounds[h].pos + 1 ELSE sounds[h].pos
           didJustFinish == adv /\ pos = Dur
           cb == sounds[h].cb
           snd == [sounds EXCEPT ![h].pos = pos,
                                 ![h].playing = sounds[h].playing /\ ~didJustFinish]
       IN /\ playbackStatus' = Status(pos, didJustFinish)
          /\ IF didJustFinish
             THEN /\ isPlaying' = FALSE
                  /\ currentSound' = IF cb # NoSound THEN NoSound ELSE currentSound
             ELSE UNCHANGED <<isPlaying, currentSound>>
          /\ UNCHANGED <<playlist, errorMessage, showErrorModal, loading, storage,
                         storeQ, files, plays, stops, pauses, removes, adds, load,
                         mounted, cmds>>
          /\ SoundsBecome(IF didJustFinish THEN Unload(snd, cb) ELSE snd)
    /\ UNCHANGED pomodoroVars

\* onPress of the pause button, shown on item i while it is the one playing:
\* pauseAudio() up to its await
PauseAudio(i) ==
    /\ UIEnabled
    /\ i \in 1..Len(playlist)
    /\ isPlaying /\ currentSound # NoSound /\ sounds[currentSound].uri = playlist[i].uri
    /\ pauses' = pauses \cup {[id |-> FreshId(pauses), cs |-> currentSound]}
    /\ cmds' = cmds + 1
    /\ UNCHANGED <<playlist, currentSound, isPlaying, playbackStatus, errorMessage,
                   showErrorModal, loading, storage, storeQ, files, sounds, plays,
                   stops, removes, adds, load, mounted, superseded>>
    /\ UNCHANGED pomodoroVars

\* pauseAudio() called while currentSound is null or isPlaying is false: the
\* if fails and nothing is done
PauseAudioNoop ==
    /\ UIEnabled
    /\ ~(currentSound # NoSound /\ isPlaying)
    /\ cmds' = cmds + 1
    /\ UNCHANGED <<playlist, currentSound, isPlaying, playbackStatus, errorMessage,
                   showErrorModal, loading, storage, storeQ, files, sounds, plays,
                   stops, pauses, removes, adds, load, mounted, superseded>>
    /\ UNCHANGED pomodoroVars

\* await currentSound.pauseAsync() resolves, or rejects because the sound is
\* not loaded any more
PauseDone(p) ==
    /\ p \in pauses
    /\ pauses' = pauses \ {p}
    /\ IF sounds[p.cs].st = "loaded"
       THEN /\ isPlaying' = FALSE
            /\ UNCHANGED <<errorMessage, showErrorModal>>
       ELSE /\ errorMessage' = "Erro ao Pausar"
            /\ showErrorModal' = TRUE
            /\ UNCHANGED isPlaying
    /\ UNCHANGED <<playlist, currentSound, playbackStatus, loading, storage, storeQ,
                   files, plays, stops, removes, adds, load, mounted, cmds>>
    /\ SoundsBecome(IF sounds[p.cs].st = "loaded"
                    THEN [sounds EXCEPT ![p.cs].playing = FALSE]
                    ELSE sounds)
    /\ UNCHANGED pomodoroVars

\* onPress of "Parar Tudo", shown while currentSound is set: stopAudio() up
\* to its first await
StopAudio ==
    /\ UIEnabled
    /\ currentSound # NoSound
    /\ stops' = stops \cup {[id |-> FreshId(stops), cs |-> currentSound, pc |-> "stop"]}
    /\ cmds' = cmds + 1
    /\ UNCHANGED <<playlist, currentSound, isPlaying, playbackStatus, errorMessage,
                   showErrorModal, loading, storage, storeQ, files, sounds, plays,
                   pauses, removes, adds, load, mounted, superseded>>
    /\ UNCHANGED pomodoroVars

\* a stopAudio that treats the missing sound as a failure
StopAudioAlerts ==
    /\ UIEnabled
    /\ currentSound = NoSound
    /\ cmds' = cmds + 1
    /\ errorMessage' = "Erro ao Parar"
    /\ showErrorModal' = TRUE
    /\ UNCHANGED <<playlist, currentSound, isPlaying, playbackStatus, loading, storage,
                   storeQ, files, sounds, plays, stops, pauses, removes, adds, load,
                   mounted, superseded>>
    /\ UNCHANGED pomodoroVars

\* stopAudio() called while currentSound is null: the if fails and nothing
\* is done
StopAudioNoop ==
    /\ UIEnabled
    /\ currentSound = NoSound
    /\ cmds' = cmds + 1
    /\ UNCHANGED <<playlist, currentSound, isPlaying, playbackStatus, errorMessage,
                   showErrorModal, loading, storage, storeQ, files, sounds, plays,
                   stops, pauses, removes, adds, load, mounted, superseded>>
    /\ UNCHANGED pomodoroVars

\* await currentSound.stopAsync() resolves, or rejects because the sound is
\* not loaded any more
StopStopped(s) ==
    /\ s \in stops
    /\ s.pc = "stop"
    /\ IF sounds[s.cs].st = "loaded"
       THEN /\ stops' = (stops \ {s}) \cup {[s EXCEPT !.pc = "unload"]}
            /\ UNCHANGED <<errorMessage, showErrorModal>>
       ELSE /\ errorMessage' = "Erro ao Parar"
            /\ showErrorModal' = TRUE
            /\ stops' = stops \ {s}
    /\ UNCHANGED <<playlist, currentSound, isPlaying, playbackStatus, loading, storage,
                   storeQ, files, plays, pauses, removes, adds, load, mounted, cmds>>
    /\ SoundsBecome(IF sounds[s.cs].st = "loaded"
                    THEN [sounds EXCEPT ![s.cs].playing = FALSE, ![s.cs].pos = 0]
                    ELSE sounds)
    /\ UNCHANGED pomodoroVars

\* await currentSound.unloadAsync() resolves; the three state updates
StopUnloaded(s) ==
    /\ s \in stops
    /\ s.pc = "unload"
    /\ currentSound' = NoSound
    /\ isPlaying' = FALSE
    /\ playbackStatus' = NoStatus
    /\ stops' = stops \ {s}
    /\ UNCHANGED <<playlist, errorMessage, showErrorModal, loading, storage, storeQ,
                   files, plays, pauses, removes, adds, load, mounted, cmds>>
    /\ SoundsBecome(Unload(sounds, s.cs))
    /\ UNCHANGED pomodoroVars

-----------------------------------------------------------------------------
(* pickAudioFile, removeAudio *)

\* onPress of "Adicionar Musica": pickAudioFile() up to the document picker
PickAudioFile ==
    /\ UIEnabled
    /\ adds' = adds \cup {[id |-> FreshId(adds), pc |-> "pick", name |-> 0]}
    /\ cmds' = cmds + 1
    /\ UNCHANGED <<playlist, currentSound, isPlaying, playbackStatus, errorMessage,
                   showErrorModal, loading, storage, storeQ, files, sounds, plays,
                   stops, pauses, removes, load, mounted, superseded>>
    /\ UNCHANGED pomodoroVars

\* DocumentPicker.getDocumentAsync resolves with the asset named fileName:
\* the directory is looked up and the copy to destinationUri is issued
DocumentPicked(a, fileName) ==
    /\ a \in adds
    /\ a.pc = "pick"
    /\ adds' = (adds \ {a}) \cup {[a EXCEPT !.pc = "copy", !.name = fileName]}
    /\ UNCHANGED <<playlist, currentSound, isPlaying, playbackStatus, errorMessage,
                   showErrorModal, loading, storage, storeQ, files, sounds, plays,
                   stops, pauses, removes, load, mounted, cmds, superseded>>
    /\ UNCHANGED pomodoroVars

\* DocumentPicker.getDocumentAsync resolves with canceled = true
DocumentCanceled(a) ==
    /\ a \in adds
    /\ a.pc = "pick"
    /\ adds' = adds \ {a}
    /\ UNCHANGED <<playlist, currentSound, isPlaying, playbackStatus, errorMessage,
                   showErrorModal, loading, storage, storeQ, files, sounds, plays,
                   stops, pauses, removes, load, mounted, cmds, superseded>>
    /\ UNCHANGED pomodoroVars

\* the updater without its check
AddUpdaterUnchecked(prevPlaylist, fileName) ==
    Append(prevPlaylist, [name |-> fileName, uri |-> DestinationUri(fileName)])

\* an updater that puts the new track first
AddUpdaterFront(prevPlaylist, fileName) ==
    IF ~(\E i \in 1..Len(prevPlaylist) : prevPlaylist[i].uri = DestinationUri(fileName))
    THEN <<[name |-> fileName, uri |-> DestinationUri(fileName)]>> \o prevPlaylist
    ELSE prevPlaylist

\* the updater given to setPlaylist by pickAudioFile
AddUpdater(prevPlaylist, fileName) ==
    IF ~(\E i \in 1..Len(prevPlaylist) : prevPlaylist[i].uri = DestinationUri(fileName))
    THEN Append(prevPlaylist, [name |-> fileName, uri |-> DestinationUri(fileName)])
    ELSE prevPlaylist

\* await FileSystem.copyAsync resolves: the file is at destinationUri; the
\* updater runs on the latest playlist and shows "Sucesso!" or "Aviso"; the
\* save effect runs only when the updater returned a new array
FileCopied(a) ==
    /\ a \in adds
    /\ a.pc = "copy"
    /\ adds' = adds \ {a}
    /\ files' = files \cup {DestinationUri(a.name)}
    /\ playlist' = AddUpdater(playlist, a.name)
    /\ IF DestinationUri(a.name) \in Uris(playlist)
       THEN /\ errorMessage' = "Aviso"
            /\ UNCHANGED storeQ
       ELSE /\ errorMessage' = "Sucesso!"
            /\ storeQ' = SavePlaylistEffect(playlist', loading, storeQ)
    /\ showErrorModal' = TRUE
    /\ UNCHANGED <<currentSound, isPlaying, playbackStatus, loading, storage, sounds,
                   plays, stops, pauses, removes, load, mounted, cmds, superseded>>
    /\ UNCHANGED pomodoroVars

\* a failed copy after which the track is put on the playlist all the same
FileCopyFailedAdds(a) ==
    /\ a \in adds
    /\ a.pc = "copy"
    /\ adds' = adds \ {a}
    /\ errorMessage' = "Erro ao Adicionar Musica"
    /\ showErrorModal' = TRUE
    /\ playlist' = AddUpdater(playlist, a.name)
    /\ UNCHANGED <<currentSound, isPlaying, playbackStatus, loading, storage,
                   storeQ, files, sounds, plays, stops, pauses, removes, load, mounted,
                   cmds, superseded>>
    /\ UNCHANGED pomodoroVars

\* getInfoAsync(AUDIO_DIR), makeDirectoryAsync or copyAsync rejects: the
\* catch block shows the alert, setPlaylist is not reached
FileCopyFailed(a) ==
    /\ a \in adds
    /\ a.pc = "copy"
    /\ adds' = adds \ {a}
    /\ errorMessage' = "Erro ao Adicionar Musica"
    /\ showErrorModal' = TRUE
    /\ UNCHANGED <<playlist, currentSound, isPlaying, playbackStatus, loading, storage,
                   storeQ, files, sounds, plays, stops, pauses, removes, load, mounted,
                   cmds, superseded>>
    /\ UNCHANGED pomodoroVars

\* onPress of the delete button of playlist item i: removeAudio(item.uri,
\* item.name) up to its first await, which is stopAudio's stopAsync when the
\* item is the one loaded and deleteAsync otherwise
RemoveAudio(i) ==
    /\ UIEnabled
    /\ i \in 1..Len(playlist)
    /\ removes' = removes \cup
          {[id |-> FreshId(removes), uri |-> playlist[i].uri, name |-> playlist[i].name,
            cs |-> currentSound,
            pc |-> IF currentSound # NoSound /\ sounds[currentSound].uri = playlist[i].uri
                   THEN "stop" ELSE "delete"]}
    /\ cmds' = cmds + 1
    /\ UNCHANGED <<playlist, currentSound, isPlaying, playbackStatus, errorMessage,
                   showErrorModal, loading, storage, storeQ, files, sounds, plays,
                   stops, pauses, adds, load, mounted, superseded>>
    /\ UNCHANGED pomodoroVars

\* stopAudio inside removeAudio: stopAsync resolves, or rejects and
\* stopAudio's catch shows the alert; removeAudio goes on either way
RemoveStopped(r) ==
    /\ r \in removes
    /\ r.pc = "stop"
    /\ IF sounds[r.cs].st = "loaded"
       THEN /\ removes' = (removes \ {r}) \cup {[r EXCEPT !.pc = "unload"]}
            /\ UNCHANGED <<errorMessage, showErrorModal>>
       ELSE /\ errorMessage' = "Erro ao Parar"
            /\ showErrorModal' = TRUE
            /\ removes' = (removes \ {r}) \cup {[r EXCEPT !.pc = "delete"]}
    /\ UNCHANGED <<playlist, currentSound, isPlaying, playbackStatus, loading, storage,
                   storeQ, files, plays, stops, pauses, adds, load, mounted, cmds>>
    /\ SoundsBecome(IF sounds[r.cs].st = "loaded"
                    THEN [sounds EXCEPT ![r.cs].playing = FALSE, ![r.cs].pos = 0]
                    ELSE sounds)
    /\ UNCHANGED pomodoroVars

\* stopAudio inside removeAudio: unloadAsync resolves, the three state
\* updates, and deleteAsync is issued
RemoveUnloaded(r) ==
    /\ r \in removes
    /\ r.pc = "unload"
    /\ currentSound' = NoSound
    /\ isPlaying' = FALSE
    /\ playbackStatus' = NoStatus
    /\ removes' = (removes \ {r}) \cup {[r EXCEPT !.pc = "delete"]}
    /\ UNCHANGED <<playlist, errorMessage, showErrorModal, loading, storage, storeQ,
                   files, plays, stops, pauses, adds, load, mounted, cmds>>
    /\ SoundsBecome(Unload(sounds, r.cs))
    /\ UNCHANGED pomodoroVars

\* an updater that drops every track
RemoveUpdaterAll(prevPlaylist, itemUri) == <<>>

\* prevPlaylist.filter((item) => item.uri !== itemUri)
RemoveUpdater(prevPlaylist, itemUri) ==
    SelectSeq(prevPlaylist, LAMBDA item : item.uri # itemUri)

\* a deleteAsync that leaves the file where it is
FileKept(r) ==
    /\ r \in removes
    /\ r.pc = "delete"
    /\ removes' = removes \ {r}
    /\ playlist' = RemoveUpdater(playlist, r.uri)
    /\ storeQ' = SavePlaylistEffect(playlist', loading, storeQ)
    /\ errorMessage' = "Sucesso!"
    /\ showErrorModal' = TRUE
    /\ UNCHANGED <<currentSound, isPlaying, playbackStatus, loading, storage, plays,
                   stops, pauses, adds, load, mounted, cmds, files>>
    /\ SoundsBecome(sounds)
    /\ UNCHANGED pomodoroVars

\* await FileSystem.deleteAsync(itemUri, {idempotent: true}) resolves; the
\* filter always returns a new array, so the save effect runs
FileDeleted(r) ==
    /\ r \in removes
    /\ r.pc = "delete"
    /\ removes' = removes \ {r}
    /\ files' = files \ {r.uri}
    /\ playlist' = RemoveUpdater(playlist, r.uri)
    /\ storeQ' = SavePlaylistEffect(playlist', loading, storeQ)
    /\ errorMessage' = "Sucesso!"
    /\ showErrorModal' = TRUE
    /\ UNCHANGED <<currentSound, isPlaying, playbackStatus, loading, storage, plays,
                   stops, pauses, adds, load, mounted, cmds>>
    /\ SoundsBecome(sounds)
    /\ UNCHANGED pomodoroVars

\* await FileSystem.deleteAsync rejects (for another reason than the file
\* being absent): the catch block shows the alert, setPlaylist is not reached
FileDeleteFailed(r) ==
    /\ r \in removes
    /\ r.pc = "delete"
    /\ removes' = removes \ {r}
    /\ errorMessage' = "Erro ao Remover Musica"
    /\ showErrorModal' = TRUE
    /\ UNCHANGED <<playlist, currentSound, isPlaying, playbackStatus, loading, storage,
                   storeQ, files, plays, stops, pauses, adds, load, mounted, cmds>>
    /\ SoundsBecome(sounds)
    /\ UNCHANGED pomodoroVars

\* The user closes the application and opens it again: the process ends
\* with its component state, its handlers in flight, its sounds and the
\* storage requests not yet served; what is stored and the files stay.
Restart ==
    /\ mounted
    /\ cmds < MaxCmds
    /\ cmds' = cmds + 1
    /\ playlist' = <<>>
    /\ currentSound' = NoSound
    /\ isPlaying' = FALSE
    /\ playbackStatus' = NoStatus
    /\ errorMessage' = ""
    /\ showErrorModal' = FALSE
    /\ loading' = FALSE
    /\ storeQ' = <<>>
    /\ sounds' = [h \in SoundIds |-> FreeSound]
    /\ plays' = {}
    /\ stops' = {}
    /\ pauses' = {}
    /\ removes' = {}
    /\ adds' = {}
    /\ load' = [pc |-> "idle", parsed |-> <<>>, valid |-> <<>>, idx |-> 0, found |-> {}]
    /\ mounted' = FALSE
    /\ superseded' = {}
    /\ UNCHANGED <<storage, files>>
    /\ UNCHANGED pomodoroVars

-----------------------------------------------------------------------------

Next ==
    \/ Mount
    \/ \E ok \in BOOLEAN : GetItemDone(ok)
    \/ GetInfoDone
    \/ \E ok \in BOOLEAN : SetItemDone(ok)
    \/ CloseErrorModal
    \/ \E i \in 1..NumNames : PlayAudio(i)
    \/ \E p \in plays : PlayUnloaded(p)
    \/ \E p \in plays, ok \in BOOLEAN : PlayCreated(p, ok)
    \/ \E h \in SoundIds, adv \in BOOLEAN : OnPlaybackStatusUpdate(h, adv)
    \/ \E i \in 1..NumNames : PauseAudio(i)
    \/ \E p \in pauses : PauseDone(p)
    \/ StopAudio
    \/ \E s \in stops : StopStopped(s)
    \/ \E s \in stops : StopUnloaded(s)
    \/ PickAudioFile
    \/ \E a \in adds, n \in Names : DocumentPicked(a, n)
    \/ \E a \in adds : DocumentCanceled(a)
    \/ \E a \in adds : FileCopied(a)
    \/ \E i \in 1..NumNames : RemoveAudio(i)
    \/ \E r \in removes : RemoveStopped(r)
    \/ \E r \in removes : RemoveUnloaded(r)
    \/ \E r \in removes : FileDeleted(r)
    \/ GetInfoFailed
    \/ \E p \in plays : PlayUnloadFailed(p)
    \/ \E a \in adds : FileCopyFailed(a)
    \/ \E r \in removes : FileDeleteFailed(r)
    \/ Restart
    \/ PauseAudioNoop
    \/ StopAudioNoop

Spec == Init /\ [][Next]_vars

-----------------------------------------------------------------------------
(* The playlist store alone: mount, load, save, add and remove with no     *)
(* sound ever played.  The playback actions write none of playlist,        *)
(* loading, storage, storeQ and files, so what the store can do in Spec it *)
(* can do here.                                                            *)

NextStore ==
    \/ Mount
    \/ \E ok \in BOOLEAN : GetItemDone(ok)
    \/ GetInfoDone
    \/ \E ok \in BOOLEAN : SetItemDone(ok)
    \/ CloseErrorModal
    \/ PickAudioFile
    \/ \E a \in adds, n \in Names : DocumentPicked(a, n)
    \/ \E a \in adds : DocumentCanceled(a)
    \/ \E a \in adds : FileCopied(a)
    \/ \E i \in 1..NumNames : RemoveAudio(i)
    \/ \E r \in removes : FileDeleted(r)
    \/ GetInfoFailed
    \/ \E a \in adds : FileCopyFailed(a)
    \/ \E r \in removes : FileDeleteFailed(r)

SpecStore == Init /\ [][NextStore]_vars

(* The playback session alone: the application starts with NumNames tracks *)
(* stored and present, AsyncStorage answers every request, and the user    *)
(* plays, pauses, stops and removes.  The actions left out write none of   *)
(* sounds, plays, stops, pauses, currentSound, isPlaying, playbackStatus.  *)

InitPlayer ==
    /\ Init
    /\ storage = Stored(Stringify([n \in Names |-> Track(n)]))
    /\ files = {DestinationUri(n) : n \in Names}

NextPlayer ==
    \/ Mount
    \/ GetItemDone(TRUE)
    \/ GetInfoDone
    \/ SetItemDone(TRUE)
    \/ CloseErrorModal
    \/ \E i \in 1..NumNames : PlayAudio(i)
    \/ \E p \in plays : PlayUnloaded(p)
    \/ \E p \in plays, ok \in BOOLEAN : PlayCreated(p, ok)
    \/ \E h \in SoundIds, adv \in BOOLEAN : OnPlaybackStatusUpdate(h, adv)
    \/ \E i \in 1..NumNames : PauseAudio(i)
    \/ \E p \in pauses : PauseDone(p)
    \/ StopAudio
    \/ \E s \in stops : StopStopped(s)
    \/ \E s \in stops : StopUnloaded(s)
    \/ \E i \in 1..NumNames : RemoveAudio(i)
    \/ \E r \in removes : RemoveStopped(r)
    \/ \E r \in removes : RemoveUnloaded(r)
    \/ \E r \in removes : FileDeleted(r)
    \/ \E p \in plays : PlayUnloadFailed(p)
    \/ \E r \in removes : FileDeleteFailed(r)
    \/ PauseAudioNoop
    \/ StopAudioNoop

SpecPlayer == InitPlayer /\ [][NextPlayer]_vars

(* The round trip: the application starts with nothing stored and no     *)
(* file, the user adds a track, removes it once it is in the playlist, and *)
(* once the remove is done closes the application and opens it again.  The *)
(* copy and the deletion succeed; reads and writes of the storage may fail *)
(* and requests not served when the application is closed are lost.        *)

InitEmpty ==
    /\ Init
    /\ storage \in {NoValue, Stored(Stringify(<<>>))}
    /\ files = {}

NextRoundTrip ==
    \/ Mount
    \/ \E ok \in BOOLEAN : GetItemDone(ok)
    \/ GetInfoDone
    \/ \E ok \in BOOLEAN : SetItemDone(ok)
    \/ CloseErrorModal
    \/ cmds = 0 /\ PickAudioFile
    \/ \E a \in adds, n \in Names : DocumentPicked(a, n)
    \/ \E a \in adds : FileCopied(a)
    \/ cmds = 1 /\ \E i \in 1..NumNames : RemoveAudio(i)
    \/ \E r \in removes : FileDeleted(r)
    \/ cmds = 2 /\ adds = {} /\ removes = {} /\ Restart

SpecRoundTrip == InitEmpty /\ [][NextRoundTrip]_vars

(* play, play, stop: with the NumNames tracks loaded the user presses play *)
(* on track 1, play on track 2 before the first createAsync has resolved,  *)
(* and then "Parar Tudo", which is on the screen once currentSound is set. *)
(* Every createAsync succeeds.                                             *)

NextPlayPlayStop ==
    \/ Mount
    \/ GetItemDone(TRUE)
    \/ GetInfoDone
    \/ SetItemDone(TRUE)
    \/ cmds = 0 /\ PlayAudio(1)
    \/ cmds = 1 /\ plays # {} /\ PlayAudio(2)
    \/ \E p \in plays : PlayCreated(p, TRUE)
    \/ \E h \in SoundIds, adv \in BOOLEAN : OnPlaybackStatusUpdate(h, adv)
    \/ cmds = 2 /\ StopAudio
    \/ \E s \in stops : StopStopped(s)
    \/ \E s \in stops : StopUnloaded(s)

SpecPlayPlayStop == InitPlayer /\ [][NextPlayPlayStop]_vars

-----------------------------------------------------------------------------
(* The pomodoro screen of src/react_pomodoro/app/index.jsx (the same logic *)
(* is the first half of src/unnamed/part_000 and of src/unnamed/part_001): *)
(* a countdown of one of three lengths, a looping background sound and an  *)
(* alarm.  A call on a Sound takes effect on the sound when it is made;    *)
(* the promise it returns resolves in a later step.                        *)

PlayAsync(snd) == IF snd.st = "loaded" THEN [snd EXCEPT !.playing = TRUE] ELSE snd

PauseAsync(snd) == IF snd.st = "loaded" THEN [snd EXCEPT !.playing = FALSE] ELSE snd

StopAsync(snd) == IF snd.st = "loaded" THEN [snd EXCEPT !.playing = FALSE] ELSE snd

ReplayAsync(snd) ==
    IF snd.st = "loaded"
    THEN [snd EXCEPT !.playing = TRUE,
                     !.replays = IF snd.replays < MaxReplays THEN snd.replays + 1
                                 ELSE MaxReplays]
    ELSE snd

UnloadAsync(snd) ==
    IF snd.st = "loaded" THEN [snd EXCEPT !.st = "unloaded", !.playing = FALSE] ELSE snd

\* the refs and the flag the timer effect works on
AudioRefs == [sound |-> sound, alarmSound |-> alarmSound, isLofiPlaying |-> isLofiPlaying]

\* the else-if branch of the timer effect: timeLeft === 0
ExpiryBranch(s) ==
    [sound |-> IF s.sound.st # "null" THEN PauseAsync(s.sound) ELSE s.sound,
     alarmSound |-> IF s.alarmSound.st # "null" THEN ReplayAsync(s.alarmSound)
                    ELSE s.alarmSound,
     isLofiPlaying |-> IF s.sound.st # "null" THEN FALSE ELSE s.isLofiPlaying]

\* how many times the else-if branch runs when a handler has left isRunning
\* as run and timeLeft as left: not at all unless one of the two changed;
\* once for the change; once more when its setIsRunning(false) changed
\* isRunning, which is a dependency of the effect
ExpiryRuns(run, left) ==
    IF <<run, left>> # <<isRunning, timeLeft>> /\ left = 0
    THEN IF run THEN 2 ELSE 1
    ELSE 0

\* a timer effect that leaves isRunning as it finds it
TimerEffectKeepsRunning(run, left, s) ==
    LET n == ExpiryRuns(run, left)
        e == IF n = 0 THEN s ELSE ExpiryBranch(s)
    IN /\ timeLeft' = left
       /\ isRunning' = run
       /\ sound' = e.sound
       /\ alarmSound' = e.alarmSound
       /\ isLofiPlaying' = e.isLofiPlaying

\* The re-render after a handler has set isRunning to run and timeLeft to
\* left, with the refs and the flag as s, and the timer effect it triggers.
\* With timeLeft > 0 the effect only sets or clears the interval: Tick is
\* enabled exactly while isRunning and timeLeft > 0.
TimerEffect(run, left, s) ==
    LET n == ExpiryRuns(run, left)
        e == IF n = 0 THEN s
             ELSE IF n = 1 THEN ExpiryBranch(s)
             ELSE ExpiryBranch(ExpiryBranch(s))
    IN /\ timeLeft' = left
       /\ isRunning' = IF n = 0 THEN run ELSE FALSE
       /\ sound' = e.sound
       /\ alarmSound' = e.alarmSound
       /\ isLofiPlaying' = e.isLofiPlaying

\* The first commit: loadSounds() runs up to its first await; the timerType
\* effect sets the values the state already has; the timer effect finds
\* isRunning false and timeLeft > 0
MountIndex ==
    /\ screen = "new"
    /\ screen' = "mounted"
    /\ loadSounds' = "mode"
    /\ UNCHANGED <<sound, alarmSound, isLofiPlaying, timerType, timeLeft, isRunning,
                   toggles>>
    /\ UNCHANGED playerVars

\* await Audio.setAudioModeAsync resolves (createAsync of the background
\* sound is issued) or rejects (the catch block logs)
AudioModeSet(ok) ==
    /\ loadSounds = "mode"
    /\ loadSounds' = IF ok THEN "bg" ELSE "failed"
    /\ UNCHANGED <<sound, alarmSound, isLofiPlaying, timerType, timeLeft, isRunning,
                   toggles, screen>>
    /\ UNCHANGED playerVars

\* await createAsync(lofi.mp3, shouldPlay) resolves: sound.current = bgSound
\* and playAsync is called on it; or rejects
BgCreated(ok) ==
    /\ loadSounds = "bg"
    /\ IF ok
       THEN /\ sound' = PlayAsync([NullSound EXCEPT !.st = "loaded", !.playing = TRUE])
            /\ loadSounds' = "play"
       ELSE /\ loadSounds' = "failed"
            /\ UNCHANGED sound
    /\ UNCHANGED <<alarmSound, isLofiPlaying, timerType, timeLeft, isRunning, toggles,
                   screen>>
    /\ UNCHANGED playerVars

\* await sound.current.playAsync() resolves (createAsync of the alarm is
\* issued) or rejects
BgPlayed(ok) ==
    /\ loadSounds = "play"
    /\ loadSounds' = IF ok THEN "alarm" ELSE "failed"
    /\ UNCHANGED <<sound, alarmSound, isLofiPlaying, timerType, timeLeft, isRunning,
                   toggles, screen>>
    /\ UNCHANGED playerVars

\* await createAsync(alarm.mp3) resolves: alarmSound.current = loadedAlarm;
\* or rejects
AlarmCreated(ok) ==
    /\ loadSounds = "alarm"
    /\ IF ok
       THEN /\ alarmSound' = [NullSound EXCEPT !.st = "loaded"]
            /\ loadSounds' = "done"
       ELSE /\ loadSounds' = "failed"
            /\ UNCHANGED alarmSound
    /\ UNCHANGED <<sound, isLofiPlaying, timerType, timeLeft, isRunning, toggles,
                   screen>>
    /\ UNCHANGED playerVars

\* The screen is unmounted: the cleanups run.  The interval is cleared and
\* unloadAsync is called on the sounds the refs hold now.  The handlers in
\* flight are dropped: the calls they have made are made, the sounds they
\* would still call are unloaded, and their state updates have no component.
Unmount ==
    /\ screen = "mounted"
    /\ screen' = "unmounted"
    /\ sound' = IF sound.st # "null" THEN UnloadAsync(sound) ELSE sound
    /\ alarmSound' = IF alarmSound.st # "null" THEN UnloadAsync(alarmSound)
                     ELSE alarmSound
    /\ toggles' = {}
    /\ UNCHANGED <<isLofiPlaying, timerType, timeLeft, isRunning, loadSounds>>
    /\ UNCHANGED playerVars

\* an interval that goes on while the timer is paused
TickPaused ==
    /\ screen = "mounted"
    /\ timeLeft > 0
    /\ TimerEffect(isRunning, timeLeft - 1, AudioRefs)
    /\ UNCHANGED <<timerType, loadSounds, toggles, screen>>
    /\ UNCHANGED playerVars

\* the interval set by the timer effect fires: setTimeLeft(prev => prev - 1)
Tick ==
    /\ screen = "mounted"
    /\ isRunning
    /\ timeLeft > 0
    /\ TimerEffect(isRunning, timeLeft - 1, AudioRefs)
    /\ UNCHANGED <<timerType, loadSounds, toggles, screen>>
    /\ UNCHANGED playerVars

\* a selection that leaves the timer running
SelectTimerTypeRunning(p) ==
    /\ screen = "mounted"
    /\ timerType' = p
    /\ IF p # timerType
       THEN TimerEffect(isRunning, InitialValue(p), AudioRefs)
       ELSE UNCHANGED <<sound, alarmSound, isLofiPlaying, timeLeft, isRunning>>
    /\ UNCHANGED <<loadSounds, toggles, screen>>
    /\ UNCHANGED playerVars

\* onPress of the Pressable of timer type p: setTimerType(p).  With another
\* type the timerType effect runs: setTimeLeft(initialValue),
\* setIsRunning(false); with the active one React bails out
SelectTimerType(p) ==
    /\ screen = "mounted"
    /\ timerType' = p
    /\ IF p # timerType
       THEN TimerEffect(FALSE, InitialValue(p), AudioRefs)
       ELSE UNCHANGED <<sound, alarmSound, isLofiPlaying, timeLeft, isRunning>>
    /\ UNCHANGED <<loadSounds, toggles, screen>>
    /\ UNCHANGED playerVars

\* onPress of the music button with sound.current set: toggleSound() up to
\* its await, pauseAsync or playAsync by this render's isPlaying
ToggleSound ==
    /\ screen = "mounted"
    /\ sound.st # "null"
    /\ Cardinality(toggles) < MaxToggles
    /\ sound' = IF isLofiPlaying THEN PauseAsync(sound) ELSE PlayAsync(sound)
    /\ toggles' = toggles \cup {[id |-> FreshId(toggles), op |-> "sound", pc |-> "await",
                                  isPlaying |-> isLofiPlaying]}
    /\ UNCHANGED <<alarmSound, isLofiPlaying, timerType, timeLeft, isRunning, loadSounds,
                   screen>>
    /\ UNCHANGED playerVars

\* the await of toggleSound resolves: setIsPlaying(!isPlaying), with the
\* isPlaying of the render the button was pressed in
ToggleSoundDone(o) ==
    /\ o \in toggles
    /\ o.op = "sound"
    /\ toggles' = toggles \ {o}
    /\ isLofiPlaying' = ~o.isPlaying
    /\ UNCHANGED <<sound, alarmSound, timerType, timeLeft, isRunning, loadSounds, screen>>
    /\ UNCHANGED playerVars

\* onPress of the timer button: toggleTimer() up to its first await, or to
\* its end when it awaits nothing.  Running: setIsRunning(prev => !prev).
\* Not running: stopAsync on the alarm if there is one, else playAsync on
\* the background sound if there is one and this render's isPlaying is
\* false, else setIsRunning(prev => !prev)
ToggleTimer ==
    /\ screen = "mounted"
    /\ IF isRunning
       THEN /\ TimerEffect(~isRunning, timeLeft, AudioRefs)
            /\ UNCHANGED toggles
       ELSE IF alarmSound.st # "null"
       THEN /\ Cardinality(toggles) < MaxToggles
            /\ alarmSound' = StopAsync(alarmSound)
            /\ toggles' = toggles \cup {[id |-> FreshId(toggles), op |-> "timer",
                                          pc |-> "stop", isPlaying |-> isLofiPlaying]}
            /\ UNCHANGED <<sound, isLofiPlaying, timeLeft, isRunning>>
       ELSE IF sound.st # "null" /\ ~isLofiPlaying
       THEN /\ Cardinality(toggles) < MaxToggles
            /\ sound' = PlayAsync(sound)
            /\ toggles' = toggles \cup {[id |-> FreshId(toggles), op |-> "timer",
                                          pc |-> "play", isPlaying |-> isLofiPlaying]}
            /\ UNCHANGED <<alarmSound, isLofiPlaying, timeLeft, isRunning>>
       ELSE /\ TimerEffect(~isRunning, timeLeft, AudioRefs)
            /\ UNCHANGED toggles
    /\ UNCHANGED <<timerType, loadSounds, screen>>
    /\ UNCHANGED playerVars

\* await alarmSound.current.stopAsync() resolves (a rejection is caught and
\* ignored): playAsync on the background sound if sound.current is set now
\* and the closure's isPlaying is false, else setIsRunning(prev => !prev)
AlarmStopped(o) ==
    /\ o \in toggles
    /\ o.op = "timer"
    /\ o.pc = "stop"
    /\ IF sound.st # "null" /\ ~o.isPlaying
       THEN /\ sound' = PlayAsync(sound)
            /\ toggles' = (toggles \ {o}) \cup {[o EXCEPT !.pc = "play"]}
            /\ UNCHANGED <<alarmSound, isLofiPlaying, timeLeft, isRunning>>
       ELSE /\ toggles' = toggles \ {o}
            /\ TimerEffect(~isRunning, timeLeft, AudioRefs)
    /\ UNCHANGED <<timerType, loadSounds, screen>>
    /\ UNCHANGED playerVars

\* await sound.current.playAsync() of toggleTimer resolves:
\* setIsPlaying(true); setIsRunning(prev => !prev)
MusicResumed(o) ==
    /\ o \in toggles
    /\ o.op = "timer"
    /\ o.pc = "play"
    /\ toggles' = toggles \ {o}
    /\ TimerEffect(~isRunning, timeLeft, [AudioRefs EXCEPT !.isLofiPlaying = TRUE])
    /\ UNCHANGED <<timerType, loadSounds, screen>>
    /\ UNCHANGED playerVars

\* the alarm, which does not loop, plays to its end
AlarmEnds ==
    /\ alarmSound.st = "loaded"
    /\ alarmSound.playing
    /\ alarmSound' = [alarmSound EXCEPT !.playing = FALSE]
    /\ UNCHANGED <<sound, isLofiPlaying, timerType, timeLeft, isRunning, loadSounds,
                   toggles, screen>>
    /\ UNCHANGED playerVars

InitPomodoro ==
    /\ Init
    /\ storage = NoValue
    /\ files = {}

NextPomodoro ==
    \/ MountIndex
    \/ \E ok \in BOOLEAN : AudioModeSet(ok)
    \/ \E ok \in BOOLEAN : BgCreated(ok)
    \/ \E ok \in BOOLEAN : BgPlayed(ok)
    \/ \E ok \in BOOLEAN : AlarmCreated(ok)
    \/ Unmount
    \/ Tick
    \/ \E p \in TimerTypes : SelectTimerType(p)
    \/ ToggleSound
    \/ \E o \in toggles : ToggleSoundDone(o)
    \/ ToggleTimer
    \/ \E o \in toggles : AlarmStopped(o)
    \/ \E o \in toggles : MusicResumed(o)
    \/ AlarmEnds

SpecPomodoro == InitPomodoro /\ [][NextPomodoro]_vars

-----------------------------------------------------------------------------
(* Claims *)

\* C1  Single voice: in every reachable state at most one Sound created by
\* playAudio is loaded (created by createAsync and not yet unloaded).
SingleVoice == Cardinality(Loaded) <= 1

\* C2  play(B) issued while play(A) was still in flight: once no play is in
\* flight any more, the session does not refer to A's sound (it is on B's,
\* or has failed on B) and at most one sound is loaded.
RaceEndsOnLatestPlay ==
    (plays = {} /\ superseded # {}) =>
        /\ currentSound \notin superseded
        /\ Cardinality(Loaded) <= 1

\* C3  No write to the playlist key is issued while the initial load is in
\* progress: from mount until loadPlaylist has finished, AsyncStorage holds
\* no setItem request.
NoWriteDuringLoad ==
    load.pc \in {"get", "probe"} => \A i \in 1..Len(storeQ) : storeQ[i].op # "set"

\* C4  Playlist uniqueness: no two tracks of the playlist ever have the same
\* uri, and an add whose copy has been made to a destination already in the
\* playlist leaves the playlist as it is and shows the "Aviso" (already in the
\* playlist) notice.
DuplicateAdd(a) ==
    /\ a \in adds
    /\ a.pc = "copy"
    /\ a \notin adds'
    /\ errorMessage' # "Erro ao Adicionar Musica"
    /\ DestinationUri(a.name) \in Uris(playlist)

PlaylistUnique ==
    /\ [](UniqueUris(playlist))
    /\ [][\A a \in adds : DuplicateAdd(a) =>
              /\ playlist' = playlist
              /\ errorMessage' = "Aviso"
              /\ showErrorModal']_vars

\* a duplicate add has just been answered with the notice
DuplicateAddNoticed ==
    /\ errorMessage = "Aviso"
    /\ showErrorModal
    /\ Len(playlist) >= 1
    /\ UniqueUris(playlist)

\* C5  Natural completion: when the current sound reports didJustFinish
\* while the session is playing, that sound is unloaded, currentSound
\* becomes null and isPlaying false.
NaturalCompletionReleases ==
    [][\A h \in SoundIds :
          (h = currentSound /\ isPlaying /\ OnPlaybackStatusUpdate(h, TRUE)
             /\ playbackStatus'.didJustFinish) =>
              /\ sounds'[h].st # "loaded"
              /\ currentSound' = NoSound
              /\ ~isPlaying']_vars

\* C6  Superseded load is ignored: when the createAsync of a play that a
\* later play superseded resolves or rejects, currentSound, isPlaying and
\* the alert stay as they are.
SupersededLoadIgnored ==
    [][\A p \in plays :
          (p.h \in superseded /\ p.pc = "create" /\ p \notin plays') =>
              UNCHANGED <<currentSound, isPlaying, errorMessage, showErrorModal>>]_vars

\* C7  Stale status updates are discarded: a status update of a sound that
\* is not currentSound changes neither playbackStatus nor isPlaying.
StaleStatusDiscarded ==
    [][\A h \in SoundIds, adv \in BOOLEAN :
          (h # currentSound /\ OnPlaybackStatusUpdate(h, adv)) =>
              UNCHANGED <<playbackStatus, isPlaying>>]_vars

\* C8  stopAudio invoked on a loaded sound: when it has completed, the sound
\* is unloaded, currentSound is null, isPlaying is false and playbackStatus
\* is cleared.
StopCompleted(s) ==
    /\ s \in stops
    /\ s \notin stops'
    /\ [s EXCEPT !.pc = "unload"] \notin stops'

StopReleases ==
    [][\A s \in stops : StopCompleted(s) =>
              /\ sounds'[s.cs].st # "loaded"
              /\ currentSound' = NoSound
              /\ ~isPlaying'
              /\ playbackStatus' = NoStatus]_vars

\* C9  Sequential supersede: playAudio invoked while currentSound is set
\* awaits the unload of that sound first, and whenever a playAudio issues
\* createAsync the sound it found as currentSound is not loaded any more;
\* the same when the item played is the one already loaded.
PlayInvoked(p) ==
    /\ p \in plays'
    /\ p.h \notin {q.h : q \in plays}

CreateIssued(p) ==
    /\ p \in plays'
    /\ p \notin plays
    /\ p.pc = "create"

SupersedeSequential ==
    [][/\ \A p \in plays' : PlayInvoked(p) =>
              /\ p.cs = currentSound
              /\ currentSound # NoSound => p.pc = "unload"
       /\ \A p \in plays' : CreateIssued(p) =>
              \/ p.cs = NoSound
              \/ sounds'[p.cs].st # "loaded"]_vars

\* createAsync is being awaited for the item whose sound was the current
\* one, which has been unloaded
SameTrackRestarting ==
    \E p \in plays :
        /\ p.pc = "create"
        /\ p.cs # NoSound
        /\ sounds[p.cs].uri = p.uri
        /\ sounds[p.cs].st = "unloaded"

\* C10  Load reconciliation: when loadPlaylist completes without error
\* after reading a stored playlist, the playlist is exactly the stored
\* tracks whose file existed when getInfoAsync probed it, in stored order;
\* when nothing is stored the playlist stays as it is; no alert is shown
\* for the dropped tracks, and the write issued at completion holds exactly
\* the tracks of the playlist (N - 1 of them when one of N files is gone).
LoadCompletes ==
    /\ load.pc \in {"get", "probe"}
    /\ load'.pc = "done"
    /\ errorMessage' # "Erro de Carregamento"

SnapshotIssued ==
    /\ Len(storeQ') > 0
    /\ storeQ'[Len(storeQ')] = [op |-> "set", val |-> Stringify(playlist')]

AddSucceeded(a) ==
    /\ a \in adds
    /\ a.pc = "copy"
    /\ a \notin adds'
    /\ playlist' = Append(playlist, Track(a.name))

RemoveSucceeded(r) ==
    /\ r \in removes
    /\ r.pc = "delete"
    /\ r \notin removes'
    /\ errorMessage' # "Erro ao Remover Musica"

WriteIssued ==
    storeQ' = Append(storeQ, [op |-> "set", val |-> Stringify(playlist')])

WriteThrough ==
    [][(/\ load.pc = "done"
        /\ \/ \E a \in adds : AddSucceeded(a)
           \/ \E r \in removes : RemoveSucceeded(r)) => WriteIssued]_vars

\* after the load, a mutation has just been made and the write of the
\* playlist it left is the last request issued
MutationWritten ==
    /\ load.pc = "done"
    /\ cmds >= 1
    /\ errorMessage = "Sucesso!"
    /\ playlist # <<>>
    /\ storeQ # <<>>
    /\ storeQ[Len(storeQ)] = [op |-> "set", val |-> Stringify(playlist)]

StoredPlaylist == IF storage.present THEN Parse(storage.val) ELSE <<>>

CopyIssued(a) ==
    /\ a \in adds'
    /\ a \notin adds
    /\ a.pc = "copy"

NoCopyOntoExisting ==
    [][\A a \in adds' : CopyIssued(a) =>
              DestinationUri(a.name) \notin Uris(playlist)]_vars

\* C14  removeAudio: when its deleteAsync has resolved (also for a file
\* already absent) the file is gone and exactly the track of that uri has
\* left the playlist, the others staying in order; when deleteAsync rejects
\* the playlist and the files stay as they are and the "Erro ao Remover
\* Musica" alert is shown.
RemoveCompleted(r) ==
    /\ r \in removes
    /\ r.pc = "delete"
    /\ r \notin removes'

RemoveDeletes ==
    [][\A r \in removes : RemoveCompleted(r) =>
          \/ /\ r.uri \notin files'
             /\ files' = files \ {r.uri}
             /\ playlist' = SelectSeq(playlist, LAMBDA t : t.uri # r.uri)
             /\ Len(playlist) - Len(playlist') <= 1
             /\ errorMessage' = "Sucesso!"
          \/ /\ files' = files
             /\ playlist' = playlist
             /\ errorMessage' = "Erro ao Remover Musica"
             /\ showErrorModal']_vars

\* of two removes on the loaded playlist one has deleted its track and the
\* other has failed and is reported, its track still there with its file
RemovedOneFailedOne ==
    /\ load.pc = "done"
    /\ Len(load.parsed) = NumNames
    /\ Cardinality(load.found) = NumNames
    /\ removes = {}
    /\ Len(playlist) = NumNames - 1
    /\ Uris(playlist) \subseteq files
    /\ Cardinality(files) = NumNames - 1
    /\ errorMessage = "Erro ao Remover Musica"
    /\ showErrorModal

\* C15  Load failure: when createAsync rejects inside playAudio, no sound is
\* loaded, currentSound is null, isPlaying is false and the failure is
\* shown in the alert.
LoadFailureFaults ==
    [][\A p \in plays : PlayCreated(p, FALSE) =>
              /\ \A h \in SoundIds : sounds'[h].st # "loaded"
              /\ currentSound' = NoSound
              /\ ~isPlaying'
              /\ showErrorModal'
              /\ errorMessage' = "Erro de Reproducao"]_vars

\* C16  No uncaught faults: every playAudio invocation that ends, ends as
\* its try or its catch block ends: with its sound as currentSound and
\* isPlaying set, or with the "Erro de Reproducao" alert shown.
PlayEnded(p) ==
    /\ p \in plays
    /\ p \notin plays'
    /\ [p EXCEPT !.pc = "create"] \notin plays'

PlayFaultsCaught ==
    [][\A p \in plays : PlayEnded(p) =>
              \/ currentSound' = p.h /\ isPlaying'
              \/ showErrorModal' /\ errorMessage' = "Erro de Reproducao"]_vars

\* C17  Load fails soft: when getItem, JSON.parse or getInfoAsync fails,
\* loadPlaylist ends in its catch and finally blocks: the alert "Erro de
\* Carregamento" is shown, loading is cleared and the playlist is left as
\* it is, which is empty unless the user has added a track meanwhile.
LoadFails ==
    /\ load.pc \in {"get", "probe"}
    /\ load'.pc = "done"
    /\ errorMessage' = "Erro de Carregamento"

Restarted == cmds = 3

PlayPlayStopEndsIdle ==
    (cmds = 3 /\ plays = {} /\ stops = {}) =>
        /\ currentSound = NoSound
        /\ ~isPlaying
        /\ Loaded = {}
        /\ ~showErrorModal

\* C20  No dangling handle: whenever currentSound is null and no playAudio
\* is in flight, no sound created by playAudio is loaded.
NoDanglingHandle ==
    (currentSound = NoSound /\ plays = {}) => Loaded = {}

\* C21  pauseAudio and stopAudio called while no sound is loaded, and
\* pauseAudio called while the session is paused, change no state, issue
\* no call on a sound and show no alert.
PauseCalled == PauseAudioNoop \/ \E i \in 1..NumNames : PauseAudio(i)

StopCalled == StopAudioNoop \/ StopAudio

Paused == currentSound # NoSound /\ ~isPlaying

IdleCommandsIgnored ==
    [][(\/ Loaded = {} /\ (PauseCalled \/ StopCalled)
        \/ Paused /\ PauseCalled) =>
          UNCHANGED <<playlist, currentSound, isPlaying, playbackStatus, errorMessage,
                      showErrorModal, loading, storage, storeQ, files, sounds, plays,
                      stops, pauses, removes, adds, load, mounted, superseded>>]_vars

\* one command has been made while the playlist was still empty, where pause
\* and stop are the only commands there are, and it has left nothing: no
\* sound, no handler in flight, no alert
IdleCommandIgnored ==
    /\ load.pc = "probe"
    /\ playlist = <<>>
    /\ cmds = 1
    /\ currentSound = NoSound
    /\ ~isPlaying
    /\ playbackStatus = NoStatus
    /\ ~showErrorModal
    /\ errorMessage = ""
    /\ plays = {} /\ stops = {} /\ pauses = {} /\ removes = {}
    /\ \A h \in SoundIds : sounds[h] = FreeSound

\* C22  A pauseAudio whose pauseAsync resolves leaves the sound it paused
\* loaded and current, at the position it had, and changes nothing but the
\* playing flag.
PauseSucceeded(p) == PauseDone(p) /\ sounds[p.cs].st = "loaded"

PauseKeepsHandle ==
    [][\A p \in pauses :
          PauseSucceeded(p) =>
            /\ currentSound' = p.cs
            /\ sounds'[p.cs].st = "loaded"
            /\ sounds'[p.cs].pos = sounds[p.cs].pos
            /\ ~isPlaying' /\ ~sounds'[p.cs].playing
            /\ \A h \in SoundIds \ {p.cs} : sounds'[h] = sounds[h]
            /\ UNCHANGED <<playlist, currentSound, playbackStatus, errorMessage,
                           showErrorModal>>]_vars

\* C23  Pressing play on the paused track resumes it: the paused sound is
\* kept, loaded and at the position it was paused at, for playback to go on
\* from there.
ResumePressed(p) ==
    /\ p.pc = "unload"
    /\ sounds[p.cs].st = "loaded"
    /\ sounds[p.cs].uri = p.uri
    /\ ~sounds[p.cs].playing
    /\ sounds[p.cs].pos \in 1..(Dur - 1)

ResumeContinues ==
    [][\A p \in plays :
          (ResumePressed(p) /\ PlayUnloaded(p)) =>
            /\ sounds'[p.cs].st = "loaded"
            /\ sounds'[p.cs].pos = sounds[p.cs].pos]_vars

\* C24  The playlist is kept in insertion order: a step either leaves it as
\* it is, appends one track that was not in it at the end, keeps some of its
\* tracks in the order they had, or (the end of the load) sets it to tracks
\* of the stored playlist in the order they were stored in.
Range(seq) == {seq[i] : i \in 1..Len(seq)}

KeepsOrder(kept, pl) == kept = SelectSeq(pl, LAMBDA t : t \in Range(kept))

Appended ==
    \E n \in Names : Track(n) \notin Range(playlist) /\ playlist' = Append(playlist, Track(n))

WriteFailureReported ==
    [][SetItemDone(FALSE) =>
          /\ showErrorModal'
          /\ errorMessage' = "Erro ao Salvar"
          /\ UNCHANGED <<playlist, storage, files>>]_vars

\* the write of a playlist with a track has failed: the alert is up, the
\* track is in memory and not in the store
WriteFailedKept ==
    /\ showErrorModal
    /\ errorMessage = "Erro ao Salvar"
    /\ storeQ = <<>>
    /\ Len(playlist) > 0
    /\ storage # Stored(Stringify(playlist))

\* C26  A pickAudioFile whose directory check, directory creation or copy
\* rejects shows "Erro ao Adicionar Musica" and leaves the playlist, the
\* files and the pending writes as they were; a cancelled pick changes nothing.
AddFailureReported ==
    [][\A a \in adds :
          /\ FileCopyFailed(a) =>
                /\ showErrorModal'
                /\ errorMessage' = "Erro ao Adicionar Musica"
                /\ UNCHANGED <<playlist, files, storage, storeQ>>
          /\ DocumentCanceled(a) =>
                UNCHANGED <<playlist, files, storage, storeQ, errorMessage,
                            showErrorModal, loading>>]_vars

\* the only add made has failed: the alert is up over an empty playlist
AddFailedNothingAdded ==
    /\ load.pc = "done"
    /\ cmds = 1
    /\ adds = {}
    /\ showErrorModal
    /\ errorMessage = "Erro ao Adicionar Musica"
    /\ playlist = <<>>
    /\ files = {}

\* C27  When the deleteAsync of a removeAudio resolves, no sound of the
\* removed uri is loaded, and the current sound is not one of that uri.
RemoveReleasesHandle ==
    [][\A r \in removes :
          FileDeleted(r) =>
            /\ \A h \in SoundIds : sounds'[h].st = "loaded" => sounds'[h].uri # r.uri
            /\ currentSound' # NoSound => sounds'[currentSound'].uri # r.uri]_vars

\* C28  A track added while the load runs is on the playlist when the load
\* has completed: the end of the load drops no track the playlist held.
LoadKeepsAdded ==
    [][LoadCompletes => Uris(playlist) \subseteq Uris(playlist')]_vars

\* C29  After a failed load, and before any command of the user, no write
\* changes the stored playlist.
LoadFailed ==
    /\ load.pc = "done"
    /\ cmds = 0
    /\ showErrorModal
    /\ errorMessage = "Erro de Carregamento"

FailedLoadKeepsStore ==
    [][LoadFailed => storage' = storage]_vars

\* C30  While isPlaying is true, currentSound is set and that sound is
\* loaded.
PlayingHasHandle ==
    isPlaying => currentSound # NoSound /\ sounds[currentSound].st = "loaded"

\* C31  timeLeft stays between 0 and the initialValue of the timer type, and
\* it changes only by a decrement of 1 while isRunning is true and timeLeft
\* is above 0, or by the reset to initialValue that a change of timer type
\* makes.
TimeLeftInRange == 0 <= timeLeft /\ timeLeft <= InitialValue(timerType)

CountedDown ==
    /\ isRunning
    /\ timeLeft > 0
    /\ timerType' = timerType
    /\ timeLeft' = timeLeft - 1

TimeReset == timerType' # timerType /\ timeLeft' = InitialValue(timerType')

Expires == Tick /\ timeLeft' = 0

ExpiryRingsOnce ==
    [][(/\ Expires
        /\ sound.st = "loaded"
        /\ alarmSound.st = "loaded"
        /\ alarmSound.replays + 2 <= MaxReplays) =>
          /\ ~isRunning'
          /\ alarmSound'.replays = alarmSound.replays + 1
          /\ ~sound'.playing
          /\ ~isLofiPlaying']_vars

\* C33  Selecting a timer type other than the active one sets timeLeft to
\* its initialValue and isRunning to false, whether the timer is running,
\* paused or expired; selecting the active type changes neither.
TypeSelectionResets ==
    [][\A p \in TimerTypes :
          SelectTimerType(p) =>
            IF p # timerType
            THEN timerType' = p /\ timeLeft' = InitialValue(p) /\ ~isRunning'
            ELSE UNCHANGED <<timerType, timeLeft, isRunning>>]_vars

\* a timer that has expired (the alarm has been replayed) stands reset on
\* the short type
ResetAfterExpiry ==
    /\ screen = "mounted"
    /\ alarmSound.replays > 0
    /\ timerType = "short"
    /\ timeLeft = InitialValue("short")
    /\ ~isRunning

\* C34  Once timeLeft is 0 the timer cannot be started: it is never running
\* at 0, timeLeft stays 0 until another timer type is selected, and every
\* toggleTimer that comes to its setIsRunning at 0 leaves isRunning false
\* and the alarm, if there is one, playing.
ToggleTimerEnds ==
    \/ ToggleTimer /\ toggles' = toggles
    \/ \E o \in toggles : AlarmStopped(o) /\ toggles' = toggles \ {o}
    \/ \E o \in toggles : MusicResumed(o)

ExpiredStaysExpired ==
    /\ [](timeLeft = 0 => ~isRunning)
    /\ [][timeLeft = 0 /\ timerType' = timerType => timeLeft' = 0]_vars
    /\ [][timeLeft = 0 /\ ToggleTimerEnds =>
            /\ ~isRunning'
            /\ alarmSound.st = "loaded" => alarmSound'.playing]_vars

\* the timer has expired and has been started again since: the alarm has
\* been replayed more often than one expiry does, the music that the start
\* resumed is paused again
StartedWhenExpired ==
    /\ screen = "mounted"
    /\ toggles = {}
    /\ timeLeft = 0
    /\ ~isRunning
    /\ alarmSound.replays > 2
    /\ alarmSound.playing
    /\ sound.st = "loaded"
    /\ ~sound.playing
    /\ ~isLofiPlaying

\* C35  Once the screen is unmounted and loadSounds has run to its end, no
\* sound that loadSounds created is loaded.
UnmountUnloadsAll ==
    (screen = "unmounted" /\ loadSounds \in {"done", "failed"}) =>
        sound.st # "loaded" /\ alarmSound.st # "loaded"

\* C36  While the screen is mounted, loadSounds has run to its end and no
\* toggleSound or toggleTimer is in flight, the music flag is true exactly
\* when the background sound is loaded and playing.
MusicFlagConsistent ==
    (screen = "mounted" /\ loadSounds \in {"done", "failed"} /\ toggles = {}) =>
        (isLofiPlaying <=> (sound.st = "loaded" /\ sound.playing))

====
